---- MODULE Spec2Model ----
(***************************************************************************)
(* HMAC / HOTP / TOTP of adam-good/OTP: the JavaScript implementation      *)
(* (src/otp.js) and the Go implementation (src/unnamed/part_000).          *)
(*                                                                         *)
(* Strings and byte slices are sequences of numbers 0..255 (a JavaScript   *)
(* string is the sequence of its character codes).  A run is a run of one  *)
(* of the two implementations (impl).                                      *)
(***************************************************************************)
EXTENDS Integers, Sequences, FiniteSets, TLC

\* ------------------------------------------------------------ constants
blocksize == 64
DigestLen == 20
codeLen == 6

\* ------------------------------------------------------------ bounds
MaxKeyLen == 65
MaxMsgLen == 1
MaxTicks == 2
MaxProcs == 2

\* ------------------------------------------------------------ inputs
TickMs == 15 * 1000
ClockBase == 9 * 30 * 1000

KeyByte(i) == (i * 7 + 3) % 256
KeyOfLen(n) == [i \in 1..n |-> KeyByte(i)] \o <<>>
KeyLens == {0, 2, blocksize} \cup ((blocksize + 1)..MaxKeyLen)
Keys == {KeyOfLen(n) : n \in KeyLens}
Msgs == {[i \in 1..n |-> 48 + i] \o <<>> : n \in 0..MaxMsgLen}
DigitsArgs == {0, codeLen, DigestLen + 1}

\* ------------------------------------------------------------ helpers
Repeat(c, n) == [i \in 1..n |-> c] \o <<>>

RECURSIVE BitXor(_, _)
BitXor(a, b) ==
    IF a = 0 /\ b = 0 THEN 0
    ELSE (((a % 2) + (b % 2)) % 2) + 2 * BitXor(a \div 2, b \div 2)

\* Number.prototype.toString() / strconv.FormatInt(t, 10) of a number >= 0
RECURSIVE DecStr(_)
DecStr(n) == IF n < 10 THEN <<48 + n>> ELSE DecStr(n \div 10) \o <<48 + (n % 10)>>

\* ------------------------------------------------------------ the hash
\* sha1 is an external library: a deterministic function of its input to
\* DigestLen bytes, that depends on every byte of the input and its length.
RECURSIVE Absorb(_, _, _)
Absorb(s, lo, hi) ==
    IF lo > hi THEN 7
    ELSE IF lo = hi THEN (s[lo] * 131 + lo * 17 + 1) % 65521
    ELSE LET mid == (lo + hi) \div 2
         IN  (Absorb(s, lo, mid) * 31 + Absorb(s, mid + 1, hi) * 211 + 5) % 65521

Hash(s) ==
    LET a == (Absorb(s, 1, Len(s)) + Len(s) * 257) % 65521
    IN  [j \in 1..DigestLen |-> (((a + j) * (2 * j + 1)) + (a \div 256)) % 256] \o <<>>

\* the JavaScript sha1() returns the digest as a lower-case hex string
HexChar(v) == IF v < 10 THEN 48 + v ELSE 87 + v
ToHex(bytes) ==
    [i \in 1..(2 * Len(bytes)) |->
        IF i % 2 = 1 THEN HexChar(bytes[(i + 1) \div 2] \div 16)
        ELSE HexChar(bytes[i \div 2] % 16)] \o <<>>
sha1(s) == ToHex(Hash(s))

\* parseInt(c1 + c2, 16)
HexVal(c) ==
    IF c \in 48..57 THEN c - 48
    ELSE IF c \in 97..102 THEN c - 87
    ELSE IF c \in 65..70 THEN c - 55
    ELSE 0
parseInt16(c1, c2) == HexVal(c1) * 16 + HexVal(c2)

\* the loop stepping by one character instead of two
HexBytesStepOne(str) ==
    [j \in 1..Len(str) |->
        IF j < Len(str) THEN parseInt16(str[j], str[j + 1]) ELSE HexVal(str[j])] \o <<>>

\* for (var i = 0; i < str.length; i += 2) bytes.push(parseInt(str[i] + str[i+1], 16))
HexBytes(str) ==
    [j \in 1..((Len(str) + 1) \div 2) |->
        IF 2 * j <= Len(str) THEN parseInt16(str[2 * j - 1], str[2 * j])
        ELSE HexVal(str[2 * j - 1])] \o <<>>

\* ------------------------------------------------------------ key normalisation
opad == Repeat(92, blocksize)
ipad == Repeat(54, blocksize)

\* the pad one byte too long
NormalizeKeyPadOff(key) ==
    IF Len(key) < blocksize THEN key \o Repeat(0, blocksize - Len(key) + 1)
    ELSE IF Len(key) > blocksize THEN SubSeq(key, 1, blocksize)
    ELSE key

\* otp.js 25-30
NormalizeKey(key) ==
    IF Len(key) < blocksize THEN key \o Repeat(0, blocksize - Len(key))
    ELSE IF Len(key) > blocksize THEN SubSeq(key, 1, blocksize)
    ELSE key

XorTable == [a \in 0..255 |-> [b \in {54, 92} |-> BitXor(a, b)]]
Xor(a, b) == IF a \in 0..255 /\ b \in {54, 92} THEN XorTable[a][b] ELSE BitXor(a, b)
\* pad.charCodeAt(i) past the end of pad is NaN, and k ^ NaN is k
XorPad(K, pad) ==
    [i \in 1..Len(K) |-> Xor(K[i], IF i <= Len(pad) THEN pad[i] ELSE 0)] \o <<>>

\* ------------------------------------------------------------ otp.js
\* hmac, lines 20-67: the values it computes, in the order it computes them
JsOuterInput(K_xor_opad, innerBytes) == innerBytes

JsHmacRun(key, message) ==
    LET K == NormalizeKey(key)
        K_xor_opad == XorPad(K, opad)
        K_xor_ipad == XorPad(K, ipad)
        innerStr == sha1(K_xor_ipad \o message)
        innerBytes == HexBytes(innerStr)
        outerStr == sha1(JsOuterInput(K_xor_opad, innerBytes))
    IN  [K |-> K, outer |-> HexBytes(outerStr)]

\* hotp, lines 90-93: code += htop_value[i] % 10, for i < codeLen
\* h.slice(1, codeLen + 1)
JsSliceFromOne(h) == SubSeq(h, 2, IF codeLen + 1 < Len(h) THEN codeLen + 1 ELSE Len(h))
JsSlice(h) == SubSeq(h, 1, IF codeLen < Len(h) THEN codeLen ELSE Len(h))
\* the digit not reduced modulo 10
RECURSIVE JsCodeNoMod(_, _)
JsCodeNoMod(v, i) ==
    IF i > codeLen THEN <<>>
    ELSE (IF i <= Len(v) THEN DecStr(v[i]) ELSE <<78, 97, 78>>) \o JsCodeNoMod(v, i + 1)
RECURSIVE JsCode(_, _)
JsCode(v, i) ==
    IF i > codeLen THEN <<>>
    ELSE (IF i <= Len(v) THEN DecStr(v[i] % 10) ELSE <<78, 97, 78>>) \o JsCode(v, i + 1)

\* the division by the step left out
JsTCSeconds(ms) == ms \div 1000
\* totp, line 107: Math.floor(new Date().getTime() / 1000 / 30)
JsTC(ms) == ms \div (1000 * 30)

\* ------------------------------------------------------------ part_000 (Go)
Bufs == {1, 2}
InitHeap == [b \in Bufs |-> IF b = 1 THEN KeyOfLen(MaxKeyLen) ELSE KeyOfLen(2)]
GoKeys == {[buf |-> 1, len |-> n] : n \in KeyLens} \cup {[buf |-> 2, len |-> 2]}

GoBytes(h, key) == SubSeq(h[key.buf], 1, key.len)

\* lines 35-42: append(key, pad...) writes the pad into the caller's array when
\* its capacity allows, and copies to a new array otherwise; key[:blocksize]
\* and a key of blocksize bytes stay views of the caller's array
GoPadsInPlace(h, key) == key.len < blocksize /\ Len(h[key.buf]) >= blocksize
GoHeapAfterPad(h, key) ==
    IF GoPadsInPlace(h, key)
    THEN [h EXCEPT ![key.buf] =
            SubSeq(@, 1, key.len) \o Repeat(0, blocksize - key.len)
                \o SubSeq(@, blocksize + 1, Len(@))]
    ELSE h
GoOuterInput(key_xor_opad, sum1) == sum1

\* lines 62-77
GoSum(K, message) ==
    IF Len(K) < blocksize THEN [status |-> "panic", tag |-> <<>>]
    ELSE LET Kb == SubSeq(K, 1, blocksize)
             key_xor_opad == XorPad(Kb, opad)
             key_xor_ipad == XorPad(Kb, ipad)
             sum1 == Hash(key_xor_ipad \o message)
             sum2 == Hash(GoOuterInput(key_xor_opad, sum1))
         IN  [status |-> "ok", tag |-> sum2]

\* HOTP, lines 113-117
GoCode(hmac) ==
    IF Len(hmac) < codeLen THEN [status |-> "panic", code |-> <<>>]
    ELSE [status |-> "ok", code |-> [i \in 1..codeLen |-> hmac[i] % 10] \o <<>>]

\* TOTP, line 128: time.Now().Unix() / 30
GoT(ms) == (ms \div 1000) \div 30

\* ------------------------------------------------------------ state
VARIABLES
    impl,        \* "js" or "go": the implementation this run is of
    clock,       \* the wall clock, in milliseconds
    K_,          \* otp.js: the implicit global hmac assigns (line 26-30)
    outerBytes,  \* otp.js: the implicit global hmac assigns (line 58)
    htop_value,  \* otp.js: the implicit global hotp assigns (line 90)
    heap,        \* Go: the callers' byte arrays behind the key slices
    last,        \* the latest call: its inputs and what it returned
    ref,         \* an earlier totp call, kept for comparison
    procs        \* Go: the goroutines inside HMAC, each with its locals

vars == <<impl, clock, K_, outerBytes, htop_value, heap, last, ref, procs>>

Undefined == [set |-> FALSE, val |-> <<>>]
Global(v) == [set |-> TRUE, val |-> v]
NoCall ==
    [op |-> "none", key |-> <<>>, msg |-> <<>>, digits |-> codeLen, t |-> 0,
     kprime |-> <<>>, tag |-> <<>>, code |-> <<>>, status |-> "ok"]
Procs == 1..MaxProcs
Idle ==
    [pc |-> "idle", key |-> [buf |-> 1, len |-> 0], msg |-> <<>>, view |-> TRUE,
     K |-> <<>>, tag |-> <<>>, status |-> "ok", alone |-> <<>>]
NoRef == [set |-> FALSE, key |-> <<>>, t |-> 0, code |-> <<>>]

Init ==
    /\ impl \in {"js", "go"}
    /\ clock = ClockBase
    /\ K_ = Undefined
    /\ outerBytes = Undefined
    /\ htop_value = Undefined
    /\ heap = InitHeap
    /\ last = NoCall
    /\ ref = NoRef
    /\ procs = [g \in Procs |-> Idle]

Tick ==
    /\ clock + TickMs <= ClockBase + MaxTicks * TickMs
    /\ clock' = clock + TickMs
    /\ UNCHANGED <<impl, K_, outerBytes, htop_value, heap, last, ref, procs>>

\* ---- otp.js
JsHmac ==
    /\ impl = "js"
    /\ \E key \in Keys, message \in Msgs :
        \E r \in {JsHmacRun(key, message)} :
            /\ K_' = Global(r.K)
            /\ outerBytes' = Global(r.outer)
            /\ last' = [NoCall EXCEPT !.op = "hmac", !.key = key, !.msg = message,
                                      !.kprime = r.K, !.tag = r.outer]
    /\ UNCHANGED <<impl, clock, htop_value, heap, ref, procs>>

JsHotpRun(key, counter) ==
    LET r == JsHmacRun(key, counter)
        v == JsSlice(r.outer)
    IN  [K |-> r.K, outer |-> r.outer, htop |-> v, code |-> JsCode(v, 1)]

\* a third argument is accepted and ignored: hotp declares (key, counter)
JsHotp ==
    /\ impl = "js"
    /\ \E key \in Keys, counter \in Msgs :
        \E r \in {JsHotpRun(key, counter)}, digits \in DigitsArgs :
            /\ K_' = Global(r.K)
            /\ outerBytes' = Global(r.outer)
            /\ htop_value' = Global(r.htop)
            /\ last' = [NoCall EXCEPT !.op = "hotp", !.key = key, !.msg = counter,
                                      !.digits = digits, !.kprime = r.K,
                                      !.tag = r.outer, !.code = r.code]
    /\ UNCHANGED <<impl, clock, heap, ref, procs>>

JsTotp ==
    /\ impl = "js"
    /\ \E key \in Keys :
        \E counter \in {DecStr(JsTC(clock))} :
        \E r \in {JsHotpRun(key, counter)} :
            /\ K_' = Global(r.K)
            /\ outerBytes' = Global(r.outer)
            /\ htop_value' = Global(r.htop)
            /\ last' = [NoCall EXCEPT !.op = "totp", !.key = key, !.msg = counter,
                                      !.t = clock, !.kprime = r.K,
                                      !.tag = r.outer, !.code = r.code]
    /\ UNCHANGED <<impl, clock, heap, ref, procs>>

\* ---- Go
\* lines 35-42: the local key after normalisation is a view of the caller's
\* array (padded in place, cut to blocksize, or left alone) or a private copy
GoNormalize(h, key) ==
    IF key.len < blocksize /\ ~GoPadsInPlace(h, key)
    THEN [heap |-> h, view |-> FALSE,
          K |-> GoBytes(h, key) \o Repeat(0, blocksize - key.len)]
    ELSE [heap |-> GoHeapAfterPad(h, key), view |-> TRUE, K |-> <<>>]

\* lines 64-67 read key[i], i < blocksize, through the local slice
GoLocalKey(h, key, view, K) ==
    IF view THEN SubSeq(h[key.buf], 1, blocksize) ELSE K

GoHmacRun(h, key, message) ==
    LET n == GoNormalize(h, key)
        K == GoLocalKey(n.heap, key, n.view, n.K)
        s == GoSum(K, message)
    IN  [heap |-> n.heap, K |-> K, status |-> s.status, tag |-> s.tag]

GoHotpRun(h, key, counter) ==
    LET r == GoHmacRun(h, key, counter)
        c == IF r.status = "ok" THEN GoCode(r.tag) ELSE [status |-> r.status, code |-> <<>>]
    IN  [heap |-> r.heap, K |-> r.K, status |-> c.status, tag |-> r.tag, code |-> c.code]

GoHmac ==
    /\ impl = "go"
    /\ \E key \in GoKeys, message \in Msgs :
        \E r \in {GoHmacRun(heap, key, message)} :
            /\ heap' = r.heap
            /\ last' = [NoCall EXCEPT !.op = "hmac", !.key = GoBytes(heap, key),
                                      !.msg = message, !.kprime = r.K,
                                      !.tag = r.tag, !.status = r.status]
    /\ UNCHANGED <<impl, clock, K_, outerBytes, htop_value, ref, procs>>

GoHotp ==
    /\ impl = "go"
    /\ \E key \in GoKeys, counter \in Msgs :
        \E r \in {GoHotpRun(heap, key, counter)} :
            /\ heap' = r.heap
            /\ last' = [NoCall EXCEPT !.op = "hotp", !.key = GoBytes(heap, key),
                                      !.msg = counter, !.kprime = r.K, !.tag = r.tag,
                                      !.code = r.code, !.status = r.status]
    /\ UNCHANGED <<impl, clock, K_, outerBytes, htop_value, ref, procs>>

GoTotp ==
    /\ impl = "go"
    /\ \E key \in GoKeys :
        \E tstr \in {DecStr(GoT(clock))} :
        \E r \in {GoHotpRun(heap, key, tstr)} :
            /\ heap' = r.heap
            /\ last' = [NoCall EXCEPT !.op = "totp", !.key = GoBytes(heap, key),
                                      !.msg = tstr, !.t = clock, !.kprime = r.K,
                                      !.tag = r.tag, !.code = r.code,
                                      !.status = r.status]
    /\ UNCHANGED <<impl, clock, K_, outerBytes, htop_value, ref, procs>>

Next ==
    \/ Tick
    \/ JsHmac
    \/ JsHotp
    \/ JsTotp
    \/ GoHmac
    \/ GoHotp
    \/ GoTotp

Spec == Init /\ [][Next]_vars

\* ------------------------------------------------------------ Go: concurrent callers
\* goroutines inside HMAC, one step per block of the function
GoCall(g) ==
    /\ impl = "go"
    /\ procs[g].pc = "idle"
    /\ \E key \in GoKeys, message \in Msgs :
        \E r \in {GoHmacRun(heap, key, message)} :
            procs' = [procs EXCEPT ![g] =
                [Idle EXCEPT !.pc = "called", !.key = key, !.msg = message,
                             !.alone = r.tag]]
    /\ UNCHANGED <<impl, clock, K_, outerBytes, htop_value, heap, last, ref>>

GoPad(g) ==
    /\ procs[g].pc = "called"
    /\ \E n \in {GoNormalize(heap, procs[g].key)} :
        /\ heap' = n.heap
        /\ procs' = [procs EXCEPT ![g].pc = "padded", ![g].view = n.view, ![g].K = n.K]
    /\ UNCHANGED <<impl, clock, K_, outerBytes, htop_value, last, ref>>

GoXorSum(g) ==
    /\ procs[g].pc = "padded"
    /\ \E s \in {GoSum(GoLocalKey(heap, procs[g].key, procs[g].view, procs[g].K),
                        procs[g].msg)} :
        procs' = [procs EXCEPT ![g].pc = "done", ![g].tag = s.tag,
                               ![g].status = s.status]
    /\ UNCHANGED <<impl, clock, K_, outerBytes, htop_value, heap, last, ref>>

NextConc == \E g \in Procs : GoCall(g) \/ GoPad(g) \/ GoXorSum(g)

InitConc == Init /\ impl = "go"

SpecConc == InitConc /\ [][NextConc]_vars

\* ------------------------------------------------------------ totp calls compared
\* an observer keeps one totp call of the run to compare the later ones with
Snapshot ==
    /\ last.op = "totp"
    /\ ~ref.set
    /\ ref' = [set |-> TRUE, key |-> last.key, t |-> last.t, code |-> last.code]
    /\ UNCHANGED <<impl, clock, K_, outerBytes, htop_value, heap, last, procs>>

NextTotp ==
    \/ Tick
    \/ JsTotp
    \/ GoTotp
    \/ JsHmac
    \/ GoHmac
    \/ Snapshot

SpecTotp == Init /\ [][NextTotp]_vars

\* ------------------------------------------------------------ properties
Called == last.op # "none"
HotpCalled == last.op \in {"hotp", "totp"}
\* a decimal digit as the implementation returns it: a character of the
\* JavaScript string, a byte 0..9 of the Go slice
Digit(d) == IF impl = "js" THEN 48 + d ELSE d
Window(ms) == (ms \div 1000) \div 30

\* C1: hmac returns Hash((K' XOR opad) || Hash((K' XOR ipad) || message)): the
\* outer hash input is the opad-masked key block followed by the inner digest.
C1_OuterHashCoversOpad ==
    Called =>
        last.tag = Hash(XorPad(last.kprime, opad)
                        \o Hash(XorPad(last.kprime, ipad) \o last.msg))

\* C2: hotp returns a code of exactly 6 elements, each a decimal digit, whatever
\* the key and the counter (the empty counter included).
C2_HotpCodeSixDigits ==
    HotpCalled =>
        /\ last.status = "ok"
        /\ Len(last.code) = 6
        /\ \A i \in 1..Len(last.code) : \E d \in 0..9 : last.code[i] = Digit(d)

C2_Witness ==
    /\ last.op = "hotp"
    /\ last.msg = <<>>
    /\ Len(last.key) > blocksize
    /\ Len(last.code) = 6

\* C3: hotp called with a code length that is non-positive or greater than the
\* digest length fails with InvalidDigits and returns no code.
C3_InvalidDigitsRejected ==
    (last.op = "hotp" /\ (last.digits <= 0 \/ last.digits > DigestLen)) =>
        /\ last.status = "InvalidDigits"
        /\ last.code = <<>>

\* C4: two totp calls with the same key at clock times of the same 30-second
\* window return the same code, however the clock advanced between them; the
\* counter handed to hotp is the decimal string of floor(t / 30).
C4_SameWindowSameCode ==
    last.op = "totp" =>
        /\ last.msg = DecStr(Window(last.t))
        /\ (ref.set /\ ref.key = last.key /\ Window(ref.t) = Window(last.t))
              => last.code = ref.code

C4_Witness ==
    /\ last.op = "totp"
    /\ ref.set
    /\ ref.key = last.key
    /\ ref.t < last.t
    /\ Window(ref.t) = Window(last.t)
    /\ last.code = ref.code

\* C5: nothing that outlives a call is changed by it: no normalized key, digest
\* or truncated code is kept in a global, and the memory behind the caller's key
\* is as it was.
C5_NothingOutlivesACall ==
    /\ K_ = Undefined
    /\ outerBytes = Undefined
    /\ htop_value = Undefined
    /\ heap = InitHeap

\* C6: under every interleaving of concurrent callers, each call returns the
\* value it returns when run alone on the same inputs.
C6_ConcurrentCallsAsAlone ==
    \A g \in Procs : procs[g].pc = "done" => procs[g].tag = procs[g].alone

\* C7: hmac completes without an error for every key and message and returns
\* exactly 20 bytes, each in 0..255.
C7_HmacTotalFixedLength ==
    Called =>
        /\ last.status = "ok"
        /\ Len(last.tag) = 20
        /\ \A i \in 1..Len(last.tag) : last.tag[i] \in 0..255

C7_Witness ==
    /\ last.op = "hmac"
    /\ last.key = <<>>
    /\ last.msg = <<>>
    /\ Len(last.tag) = 20

\* normalising once more the key a call normalised
Renormalize(k) ==
    IF impl = "js" THEN NormalizeKey(k)
    ELSE LET h == [b \in Bufs |-> k]
             key == [buf |-> 1, len |-> Len(k)]
             n == GoNormalize(h, key)
         IN  GoLocalKey(n.heap, key, n.view, n.K)

\* C8: key normalization yields exactly 64 bytes, leaves a key of exactly 64
\* bytes as it is, and normalizing its result again changes nothing.
C8_KeyNormalization ==
    Called =>
        /\ Len(last.kprime) = 64
        /\ (Len(last.key) = 64 => last.kprime = last.key)
        /\ Renormalize(last.kprime) = last.kprime
        /\ (impl = "js" => K_ = Global(last.kprime))

C8_Witness ==
    /\ last.op = "hmac"
    /\ Len(last.key) = 64
    /\ last.kprime = last.key
    /\ Renormalize(last.kprime) = last.kprime

\* C9: a key longer than the block size is normalized to Hash(key) padded with
\* zero bytes to the block size.
C9_OversizedKeyHashed ==
    (Called /\ Len(last.key) > blocksize) =>
        last.kprime = Hash(last.key) \o Repeat(0, blocksize - DigestLen)

====
